---- MODULE Spec2Model ----
(***************************************************************************)
(* Model of bulk_updater.py: N8NWorkflowUpdater (scan workflows for old    *)
(* model identifiers, rewrite them by textual substitution over the        *)
(* serialized JSON, save them back through the REST API) and main().       *)
(*                                                                         *)
(* Text is a sequence of symbols.  A symbol is a character of a string     *)
(* value ("x", "y", the quote, the backslash) or a piece of JSON syntax    *)
(* that json.dumps emits around the values (braces, brackets, ", ", ": "   *)
(* and the quoted key names).  Key names are single symbols: the keys of a *)
(* workflow share no substring with a model identifier.                    *)
(***************************************************************************)
EXTENDS Integers, Sequences, FiniteSets

\* ---------------------------------------------------------------- bounds
MaxWorkflows == 2    \* workflows in the remote store (Spec)
MaxIdLen == 2        \* length of a model identifier (RewriteSpec)
MaxStrLen == 2       \* length of a workflow's name (RewriteSpec)

\* --------------------------------------------------------------- symbols
QUOTE == "\""
BACKSLASH == "\\"
\* The characters of string values: neither is a JSON escape letter.
Chars == {"x", "y"}
LBRACE == "{"
RBRACE == "}"
LBRACK == "["
RBRACK == "]"
COMMA == ", "
COLON == ": "
K_id == "\"id\""
K_name == "\"name\""
K_nodes == "\"nodes\""
K_connections == "\"connections\""
K_settings == "\"settings\""
K_timezone == "\"timezone\""
KeySymbols == {K_id, K_name, K_nodes, K_connections, K_settings, K_timezone}

StrUpTo(S, n) == UNION {[1..k -> S] : k \in 0..n}

\* ------------------------------------------------------------ json.dumps
\* An optional value is <<>> (the key is absent) or <<v>>.  A mapping
\* (settings, connections) is <<>> for {} or <<s>> for {"timezone": s}.
EmptyMapping == <<>>

RECURSIVE Escape(_)
Escape(s) ==
    IF s = <<>> THEN <<>>
    ELSE (IF Head(s) \in {QUOTE, BACKSLASH} THEN <<BACKSLASH, Head(s)>> ELSE <<Head(s)>>)
         \o Escape(Tail(s))

DumpsStr(s) == <<QUOTE>> \o Escape(s) \o <<QUOTE>>

RECURSIVE DumpsList(_)
DumpsList(xs) ==
    IF xs = <<>> THEN <<>>
    ELSE DumpsStr(Head(xs)) \o (IF Len(xs) > 1 THEN <<COMMA>> ELSE <<>>) \o DumpsList(Tail(xs))

DumpsMapping(m) ==
    <<LBRACE>> \o (IF m = <<>> THEN <<>> ELSE <<K_timezone, COLON>> \o DumpsStr(m[1])) \o <<RBRACE>>

Dumps(w) ==
    <<LBRACE>>
    \o (IF w.id = <<>> THEN <<>> ELSE <<K_id, COLON>> \o DumpsStr(w.id[1]) \o <<COMMA>>)
    \o <<K_name, COLON>> \o DumpsStr(w.name)
    \o <<COMMA, K_nodes, COLON, LBRACK>> \o DumpsList(w.nodes) \o <<RBRACK>>
    \o <<COMMA, K_connections, COLON>> \o DumpsMapping(w.connections)
    \o (IF w.settings = <<>> THEN <<>> ELSE <<COMMA, K_settings, COLON>> \o DumpsMapping(w.settings[1]))
    \o <<RBRACE>>

\* ------------------------------------------------------------ json.loads
\* A parse result is [ok, val, pos]: pos is the next position, 0 on failure.
Fail == [ok |-> FALSE, val |-> <<>>, pos |-> 0]
At(t, i) == IF i \in 1..Len(t) THEN t[i] ELSE "EOF"
Expect(t, i, sym) == IF i > 0 /\ At(t, i) = sym THEN i + 1 ELSE 0

\* The body of a string literal from position i, just after its opening quote.
RECURSIVE ScanStr(_, _, _)
ScanStr(t, i, acc) ==
    IF i > Len(t) THEN Fail
    ELSE IF t[i] = QUOTE THEN [ok |-> TRUE, val |-> acc, pos |-> i + 1]
    ELSE IF t[i] = BACKSLASH
         THEN IF At(t, i + 1) \in {QUOTE, BACKSLASH}
              THEN ScanStr(t, i + 2, Append(acc, t[i + 1]))
              ELSE Fail
    ELSE IF t[i] \in KeySymbols THEN Fail
    ELSE ScanStr(t, i + 1, Append(acc, t[i]))

ParseStr(t, i) == IF i > 0 /\ At(t, i) = QUOTE THEN ScanStr(t, i + 1, <<>>) ELSE Fail

\* The elements of a list from position i, just after its "[".
RECURSIVE ParseList(_, _, _)
ParseList(t, i, acc) ==
    IF i = 0 THEN Fail
    ELSE IF acc = <<>> /\ At(t, i) = RBRACK THEN [ok |-> TRUE, val |-> acc, pos |-> i + 1]
    ELSE LET r == ParseStr(t, i)
         IN IF ~r.ok THEN Fail
            ELSE IF At(t, r.pos) = RBRACK
                 THEN [ok |-> TRUE, val |-> Append(acc, r.val), pos |-> r.pos + 1]
            ELSE IF At(t, r.pos) = COMMA THEN ParseList(t, r.pos + 1, Append(acc, r.val))
            ELSE Fail

ParseMapping(t, i) ==
    LET j == Expect(t, i, LBRACE)
    IN IF j = 0 THEN Fail
       ELSE IF At(t, j) = RBRACE THEN [ok |-> TRUE, val |-> <<>>, pos |-> j + 1]
       ELSE LET r == ParseStr(t, Expect(t, Expect(t, j, K_timezone), COLON))
            IN IF r.ok /\ At(t, r.pos) = RBRACE
               THEN [ok |-> TRUE, val |-> <<r.val>>, pos |-> r.pos + 1]
               ELSE Fail

NoWorkflow == [id |-> <<>>, name |-> <<>>, nodes |-> <<>>, connections |-> <<>>, settings |-> <<>>]

\* json.loads of a workflow's text: [ok, val]; ok = FALSE is a JSONDecodeError.
Loads(t) ==
    LET hasId == At(t, 2) = K_id
        rId == IF hasId THEN ParseStr(t, Expect(t, Expect(t, Expect(t, 1, LBRACE), K_id), COLON))
               ELSE [ok |-> TRUE, val |-> <<>>, pos |-> 0]
        iName == IF hasId THEN Expect(t, rId.pos, COMMA) ELSE Expect(t, 1, LBRACE)
        rName == ParseStr(t, Expect(t, Expect(t, iName, K_name), COLON))
        rNodes == ParseList(t, Expect(t, Expect(t, Expect(t, Expect(t, rName.pos, COMMA),
                                                          K_nodes), COLON), LBRACK), <<>>)
        rConn == ParseMapping(t, Expect(t, Expect(t, Expect(t, rNodes.pos, COMMA),
                                                  K_connections), COLON))
        hasSet == rConn.ok /\ At(t, rConn.pos) = COMMA
        rSet == IF hasSet
                THEN ParseMapping(t, Expect(t, Expect(t, rConn.pos + 1, K_settings), COLON))
                ELSE rConn
        end == Expect(t, rSet.pos, RBRACE)
    IN IF rId.ok /\ rName.ok /\ rNodes.ok /\ rConn.ok /\ rSet.ok /\ end = Len(t) + 1
       THEN [ok |-> TRUE,
             val |-> [id |-> IF hasId THEN <<rId.val>> ELSE <<>>,
                      name |-> rName.val,
                      nodes |-> rNodes.val,
                      connections |-> rConn.val,
                      settings |-> IF hasSet THEN <<rSet.val>> ELSE <<>>]]
       ELSE [ok |-> FALSE, val |-> NoWorkflow]

\* ----------------------------------------------------- str.replace, `in`
IsAt(t, i, old) == i + Len(old) - 1 <= Len(t) /\ SubSeq(t, i, i + Len(old) - 1) = old

\* `old in t` for a non-empty old.
Contains(t, old) == \E i \in 1..Len(t) : IsAt(t, i, old)

\* t.replace(old, new) for a non-empty old: every non-overlapping occurrence,
\* left to right.
RECURSIVE ReplaceFrom(_, _, _, _)
ReplaceFrom(t, i, old, new) ==
    IF i > Len(t) THEN <<>>
    ELSE IF IsAt(t, i, old) THEN new \o ReplaceFrom(t, i + Len(old), old, new)
    ELSE <<t[i]>> \o ReplaceFrom(t, i + 1, old, new)

\* The slip t.replace(old, new, 1): the first occurrence only.
RECURSIVE ReplaceFirstFrom(_, _, _, _)
ReplaceFirstFrom(t, i, old, new) ==
    IF i > Len(t) THEN <<>>
    ELSE IF IsAt(t, i, old) THEN new \o SubSeq(t, i + Len(old), Len(t))
    ELSE <<t[i]>> \o ReplaceFirstFrom(t, i + 1, old, new)

ReplaceFirst(t, old, new) == ReplaceFirstFrom(t, 1, old, new)

Replace(t, old, new) == ReplaceFrom(t, 1, old, new)

\* for old_model_id in self.models_to_replace: updated_json = updated_json.replace(...)
RECURSIVE ReplaceAll(_, _, _)
ReplaceAll(t, olds, new) ==
    IF olds = <<>> THEN t
    ELSE ReplaceAll(Replace(t, Head(olds), new), Tail(olds), new)

\* ------------------------------------------------------------------ state
VARIABLES
    store,                \* the workflows the remote store holds
    dry_run,              \* run_bulk_update's argument (not args.live)
    models_to_replace,    \* self.models_to_replace
    new_model_id,         \* self.new_model_id
    pc,                   \* where run_bulk_update stands
    outcome,              \* how the run ended ("running" until it has)
    conn,                 \* what test_connection returned
    fetch_called,         \* get_all_workflows was called
    workflows,            \* what get_all_workflows returned
    workflows_to_update,  \* the filtered subset
    preview,              \* the rows of the "Workflows to Update" table
    preview_shown,        \* the table was printed
    prompted,             \* Confirm.ask was called
    confirmed,            \* Confirm.ask returned True
    idx,                  \* position of the apply loop in workflows_to_update
    updated_count,
    failed_count,
    attempted,            \* the workflows handed to update_workflow_model, in order
    results,              \* per attempted workflow: "ok", "failed", "no_id" or "raised"
    requests,             \* the PUT requests sent, in order
    rstage,               \* RewriteSpec: which applications have been made
    rdoc,                 \* RewriteSpec: the document D
    ronce,                \* RewriteSpec: update_workflow_model(D)
    rmatch,               \* RewriteSpec: workflow_contains_model of the rewritten D
    rtwice                \* RewriteSpec: update_workflow_model applied a second time

cfgVars == <<store, dry_run, models_to_replace, new_model_id>>
runVars == <<pc, outcome, conn, fetch_called, workflows, workflows_to_update, preview,
             preview_shown, prompted, confirmed, idx, updated_count, failed_count,
             attempted, results, requests>>
rwVars == <<rstage, rdoc, ronce, rmatch, rtwice>>
vars == <<cfgVars, runVars, rwVars>>

\* ------------------------------------------------------ N8NWorkflowUpdater
\* The slip of testing the first old identifier only.
ContainsFirstModelOnly(workflow) ==
    LET found_models == IF Contains(Dumps(workflow), models_to_replace[1])
                        THEN <<models_to_replace[1]>> ELSE <<>>
    IN [contains |-> Len(found_models) > 0, found |-> found_models]

\* workflow_contains_model: (len(found_models) > 0, found_models)
workflow_contains_model(workflow) ==
    LET workflow_json == Dumps(workflow)
        found_models == SelectSeq(models_to_replace, LAMBDA m : Contains(workflow_json, m))
    IN [contains |-> Len(found_models) > 0, found |-> found_models]

\* update_workflow_model: [ok, val]; ok = FALSE when json.loads raises.
update_workflow_model(workflow) ==
    Loads(ReplaceAll(Dumps(workflow), models_to_replace, new_model_id))

\* `not workflow.get('id')`: the key is absent or its value is the empty string.
MissingId(workflow) == workflow.id = <<>> \/ workflow.id[1] = <<>>

\* The slip workflow.get('settings'): no default, the key is left out when absent.
PayloadWithoutDefault(workflow) ==
    IF workflow.settings = <<>>
    THEN [name |-> workflow.name, nodes |-> workflow.nodes,
          connections |-> workflow.connections]
    ELSE [name |-> workflow.name, nodes |-> workflow.nodes,
          connections |-> workflow.connections, settings |-> workflow.settings[1]]

\* update_payload of save_workflow
UpdatePayload(workflow) ==
    [name |-> workflow.name,
     nodes |-> workflow.nodes,
     connections |-> workflow.connections,
     settings |-> IF workflow.settings = <<>> THEN EmptyMapping ELSE workflow.settings[1]]

\* The PUT save_workflow sends for a workflow that has an id.
PutRequest(workflow, netOk) ==
    [id |-> workflow.id[1], payload |-> UpdatePayload(workflow), doc |-> workflow, ok |-> netOk]

\* save_workflow: what it returns; netOk is whether the PUT succeeds.
save_workflow(workflow, netOk) == IF MissingId(workflow) THEN FALSE ELSE netOk

\* The PUT requests save_workflow sends: none for a workflow without id.
SaveRequests(workflow, netOk) ==
    IF MissingId(workflow) THEN <<>> ELSE <<PutRequest(workflow, netOk)>>

\* ---------------------------------------------------------- run_bulk_update
\* for workflow in workflows: if contains_model: workflows_to_update.append(workflow)
FindWorkflowsToUpdate(ws) == SelectSeq(ws, LAMBDA w : workflow_contains_model(w).contains)

\* workflow_model_map.get(key, []): the entry written last under that id.
RECURSIVE ModelMapGet(_, _)
ModelMapGet(ws, key) ==
    IF ws = <<>> THEN <<>>
    ELSE IF ws[Len(ws)].id = key THEN workflow_contains_model(ws[Len(ws)]).found
    ELSE ModelMapGet(SubSeq(ws, 1, Len(ws) - 1), key)

UNKNOWN == <<"Unknown">>

PreviewRows(ws) ==
    [i \in 1..Len(ws) |->
        [name |-> ws[i].name,
         id |-> IF MissingId(ws[i]) THEN UNKNOWN ELSE ws[i].id[1],
         found |-> ModelMapGet(ws, ws[i].id)]]

\* The slip of going on after a failed connection test.
AfterConnectAlwaysFetch(ok) == "fetch"

\* if not self.test_connection(): return
AfterConnect(ok) == IF ok THEN "fetch" ELSE "done"

\* The slip of a missing dry-run return.
NeverStopsAfterPreview == FALSE

\* if dry_run: "DRY RUN COMPLETE"; return
StopsAfterPreview == dry_run

\* The slip of ignoring the answer.
ProceedsWhateverTheAnswer(answer) == TRUE

\* if not Confirm.ask(...): return
Proceeds(answer) == answer

TestConnection(ok) ==
    /\ pc = "connect"
    /\ conn' = IF ok THEN "ok" ELSE "failed"
    /\ pc' = AfterConnect(ok)
    /\ outcome' = IF pc' = "done" THEN "no_connection" ELSE outcome
    /\ UNCHANGED <<cfgVars, rwVars, fetch_called, workflows, workflows_to_update, preview,
                   preview_shown, prompted, confirmed, idx, updated_count, failed_count,
                   attempted, results, requests>>

\* get_all_workflows, the filter, the table, and the dry-run return or the prompt.
\* (\E v \in {e} names the value of e, computed once.)
GetAllWorkflows(ok) ==
    /\ pc = "fetch"
    /\ fetch_called' = TRUE
    /\ workflows' = IF ok THEN store ELSE <<>>
    /\ \E found \in {FindWorkflowsToUpdate(IF ok THEN store ELSE <<>>)} :
          IF ~ok \/ store = <<>>
          THEN /\ pc' = "done" /\ outcome' = "nothing_found"
               /\ UNCHANGED <<workflows_to_update, preview, preview_shown, prompted>>
          ELSE /\ workflows_to_update' = found
               /\ IF found = <<>>
                  THEN /\ pc' = "done" /\ outcome' = "no_match"
                       /\ UNCHANGED <<preview, preview_shown, prompted>>
                  ELSE /\ preview' = PreviewRows(found)
                       /\ preview_shown' = TRUE
                       /\ IF StopsAfterPreview
                          THEN /\ pc' = "done" /\ outcome' = "dry_run_complete"
                               /\ UNCHANGED prompted
                          ELSE /\ pc' = "confirm" /\ prompted' = TRUE
                               /\ UNCHANGED outcome
    /\ UNCHANGED <<cfgVars, rwVars, conn, confirmed, idx, updated_count, failed_count,
                   attempted, results, requests>>

\* if not Confirm.ask(...): "Update cancelled"; return
ConfirmAsk(answer) ==
    /\ pc = "confirm"
    /\ confirmed' = answer
    /\ IF Proceeds(answer)
       THEN /\ pc' = "apply" /\ idx' = 1 /\ updated_count' = 0 /\ failed_count' = 0
            /\ UNCHANGED outcome
       ELSE /\ pc' = "done" /\ outcome' = "cancelled"
            /\ UNCHANGED <<idx, updated_count, failed_count>>
    /\ UNCHANGED <<cfgVars, rwVars, conn, fetch_called, workflows, workflows_to_update,
                   preview, preview_shown, prompted, attempted, results, requests>>

\* One iteration of `for workflow in workflows_to_update`; after the last one the
\* summary is printed.  A JSONDecodeError of update_workflow_model leaves the loop
\* and run_bulk_update, and main's `except Exception` reports it and returns 1.
UpdateOne(netOk) ==
    /\ pc = "apply"
    /\ \E workflow \in {workflows_to_update[idx]} :
       \E updated \in {update_workflow_model(workflow)} :
       \E saved \in {save_workflow(updated.val, netOk)} :
          /\ attempted' = Append(attempted, workflow)
          /\ IF ~updated.ok
             THEN /\ pc' = "done" /\ outcome' = "error"
                  /\ results' = Append(results, "raised")
                  /\ UNCHANGED <<idx, updated_count, failed_count, requests>>
             ELSE /\ requests' = requests \o SaveRequests(updated.val, netOk)
                  /\ updated_count' = IF saved THEN updated_count + 1 ELSE updated_count
                  /\ failed_count' = IF saved THEN failed_count ELSE failed_count + 1
                  /\ results' = Append(results, IF saved THEN "ok"
                                                ELSE IF MissingId(updated.val) THEN "no_id"
                                                ELSE "failed")
                  /\ idx' = idx + 1
                  /\ IF idx = Len(workflows_to_update)
                     THEN pc' = "done" /\ outcome' = "summarized"
                     ELSE pc' = "apply" /\ UNCHANGED outcome
    /\ UNCHANGED <<cfgVars, rwVars, conn, fetch_called, workflows, workflows_to_update,
                   preview, preview_shown, prompted, confirmed>>

\* ------------------------------------------------------------- the inputs
Workflows(ids, names, params, mappings) ==
    [id : {<<>>} \cup {<<s>> : s \in ids},
     name : names,
     nodes : {<<>>} \cup {<<s>> : s \in params},
     connections : {EmptyMapping},
     settings : {<<>>} \cup {<<m>> : m \in mappings}]

SeqUpTo(S, n) == UNION {[1..k -> S] : k \in 0..n}

\* The store's workflows: with or without the id "y", named "y", with no node or
\* one whose model is "x" or "xx", with or without the settings {"timezone": "y"}.
RunWorkflows == Workflows({<<"y">>}, {<<"y">>}, {<<"x">>, <<"x", "x">>}, {<<<<"y">>>>})
RunModelLists == {<< <<"x">> >>, << <<"x">>, <<"y">> >>}
\* NEW_MODEL_ID / --new-model: any text, the quote and the backslash included.
RunNewIds == {<<>>, <<"x">>, <<"y">>, <<QUOTE>>, <<BACKSLASH>>}

RwIdle ==
    /\ rstage = "idle"
    /\ rdoc = NoWorkflow
    /\ ronce = [ok |-> FALSE, val |-> NoWorkflow]
    /\ rmatch = [contains |-> FALSE, found |-> <<>>]
    /\ rtwice = [ok |-> FALSE, val |-> NoWorkflow]

RunStart(p) ==
    /\ pc = p
    /\ outcome = "running"
    /\ conn = "untested"
    /\ fetch_called = FALSE
    /\ workflows = <<>>
    /\ workflows_to_update = <<>>
    /\ preview = <<>>
    /\ preview_shown = FALSE
    /\ prompted = FALSE
    /\ confirmed = FALSE
    /\ idx = 0
    /\ updated_count = 0
    /\ failed_count = 0
    /\ attempted = <<>>
    /\ results = <<>>
    /\ requests = <<>>

\* main: updater = N8NWorkflowUpdater(); updater.run_bulk_update(dry_run=not args.live)
Init ==
    /\ store \in SeqUpTo(RunWorkflows, MaxWorkflows)
    /\ dry_run \in BOOLEAN
    /\ models_to_replace \in RunModelLists
    /\ new_model_id \in RunNewIds
    /\ RunStart("connect")
    /\ RwIdle

Next ==
    \/ \E ok \in BOOLEAN : TestConnection(ok)
    \/ \E ok \in BOOLEAN : GetAllWorkflows(ok)
    \/ \E answer \in BOOLEAN : ConfirmAsk(answer)
    \/ \E netOk \in BOOLEAN : UpdateOne(netOk)

Spec == Init /\ [][Next]_vars

\* ------------------------------------------- the engine's functions alone
\* The identifier sets I and the documents D the functions are applied to.
\* I is one old identifier or two different ones, and a new identifier.
ModelIds == StrUpTo(Chars, MaxIdLen) \ {<<>>}
RwModelLists == {<<m>> : m \in ModelIds}
                \cup {p \in ModelIds \X ModelIds : p[1] # p[2]}
RwNewIds == StrUpTo(Chars, MaxIdLen) \cup {<<QUOTE>>, <<BACKSLASH>>}
RwNames == StrUpTo(Chars, MaxStrLen) \cup {<<QUOTE>>, <<QUOTE, "x">>}
RwWorkflows == Workflows({}, RwNames, {<<"y">>}, {})

RwInit ==
    /\ store = <<>>
    /\ dry_run = TRUE
    /\ models_to_replace \in RwModelLists
    /\ new_model_id \in RwNewIds
    /\ RunStart("idle")
    /\ rstage = "start"
    /\ rdoc \in RwWorkflows
    /\ ronce = [ok |-> FALSE, val |-> NoWorkflow]
    /\ rmatch = [contains |-> FALSE, found |-> <<>>]
    /\ rtwice = [ok |-> FALSE, val |-> NoWorkflow]

\* updated = update_workflow_model(D)
RwRewrite ==
    /\ rstage = "start"
    /\ ronce' = update_workflow_model(rdoc)
    /\ rstage' = IF ronce'.ok THEN "once" ELSE "raised"
    /\ UNCHANGED <<cfgVars, runVars, rdoc, rmatch, rtwice>>

\* workflow_contains_model(updated)
RwMatch ==
    /\ rstage = "once"
    /\ rmatch' = workflow_contains_model(ronce.val)
    /\ rstage' = "matched"
    /\ UNCHANGED <<cfgVars, runVars, rdoc, ronce, rtwice>>

\* update_workflow_model(updated)
RwRewriteAgain ==
    /\ rstage = "matched"
    /\ rtwice' = update_workflow_model(ronce.val)
    /\ rstage' = "twice"
    /\ UNCHANGED <<cfgVars, runVars, rdoc, ronce, rmatch>>

RwNext == RwRewrite \/ RwMatch \/ RwRewriteAgain

RewriteSpec == RwInit /\ [][RwNext]_vars

\* ================================================================ claims
\* What the claims speak of, stated without the program's own functions.
Matches(w) == \E k \in 1..Len(models_to_replace) : Contains(Dumps(w), models_to_replace[k])
FilteredSubset == SelectSeq(workflows, Matches)
IsPrefix(s, t) == Len(s) <= Len(t) /\ s = SubSeq(t, 1, Len(s))
\* The positions in `attempted` of the workflows a PUT was sent for.
SentIdx == SelectSeq([j \in 1..Len(results) |-> j], LAMBDA j : results[j] \in {"ok", "failed"})
Count(rs, S) == Cardinality({j \in 1..Len(rs) : rs[j] \in S})

\* C1: in a dry run no PUT is ever sent, whatever the connection test, the fetch
\* and the matches give: the run ends after the preview, with no prompt.
C1_DryRunNeverWrites ==
    dry_run => /\ requests = <<>>
               /\ attempted = <<>>
               /\ ~prompted
               /\ preview_shown => (pc = "done" /\ outcome = "dry_run_complete")

C1_Witness == dry_run /\ outcome = "dry_run_complete" /\ Len(workflows_to_update) >= 2

\* C2: a PUT is sent only in a live run whose prompt was shown and answered yes;
\* a run whose prompt was answered no ends cancelled, with no PUT.
C2_NoWriteWithoutConfirmation ==
    /\ (requests # <<>> \/ attempted # <<>>) => (~dry_run /\ prompted /\ confirmed)
    /\ ~confirmed => requests = <<>>
    /\ (prompted /\ ~confirmed /\ pc = "done") => outcome = "cancelled"
    /\ outcome = "cancelled" => (prompted /\ ~confirmed /\ requests = <<>>)

C2_Witness == ~dry_run /\ outcome = "cancelled" /\ Len(workflows_to_update) >= 2

\* C3 (as claimed): in a confirmed live run in which an update failed, once the run
\* has ended every workflow of the filtered subset was attempted and the succeeded
\* and failed counts add up to the size of the subset.
C3_FailureIsolation ==
    (confirmed /\ pc = "done" /\ \E j \in 1..Len(results) : results[j] = "failed")
        => /\ Len(attempted) = Len(workflows_to_update)
           /\ updated_count + failed_count = Len(workflows_to_update)

\* C6 (as claimed): the workflows the apply loop processes are exactly, in fetch
\* order and each once, the fetched workflows whose text contains an old
\* identifier, and the PUTs go, in that order, to those workflows and no other.
C6_FilteredInFetchOrder ==
    /\ IsPrefix(attempted, FilteredSubset)
    /\ preview_shown => workflows_to_update = FilteredSubset
    /\ (confirmed /\ pc = "done") => attempted = FilteredSubset
    /\ Len(requests) = Len(SentIdx)
    /\ \A k \in 1..Len(requests) : <<requests[k].id>> = attempted[SentIdx[k]].id

\* C7: after a failed connection test the run has ended, without the fetch and
\* without a PUT; after a fetch that gave no workflow (the call failed or the store
\* is empty) the run has ended with no table, no prompt and no PUT, dry run or not.
C7_EarlyAbort ==
    /\ conn = "failed" => /\ pc = "done" /\ outcome = "no_connection"
                          /\ ~fetch_called /\ requests = <<>> /\ attempted = <<>>
    /\ (fetch_called /\ workflows = <<>>)
          => /\ pc = "done" /\ outcome = "nothing_found"
             /\ ~preview_shown /\ ~prompted /\ requests = <<>> /\ attempted = <<>>

C7_Witness == ~dry_run /\ fetch_called /\ workflows = <<>> /\ Len(store) >= 2 /\ pc = "done"

\* C8 (as claimed): every PUT targets the id of the fetched workflow being updated,
\* and a workflow without id gets no PUT and counts as a failure.
C8_RequestTargetsFetchedId ==
    /\ Len(requests) = Len(SentIdx)
    /\ \A k \in 1..Len(requests) :
          /\ attempted[SentIdx[k]].id = <<requests[k].id>>
          /\ \E i \in 1..Len(workflows) : workflows[i].id = <<requests[k].id>>
    /\ \A j \in 1..Len(results) :
          (results[j] # "raised" /\ MissingId(attempted[j])) => results[j] = "no_id"
    /\ failed_count >= Count(results, {"no_id"})

\* C9: the payload of every PUT has exactly the fields name, nodes, connections and
\* settings; settings is the saved workflow's settings when it has them and the
\* empty mapping when it has none.
C9_PayloadFields ==
    \A k \in 1..Len(requests) :
        LET r == requests[k]
        IN /\ DOMAIN r.payload = {"name", "nodes", "connections", "settings"}
           /\ r.payload.name = r.doc.name
           /\ r.payload.nodes = r.doc.nodes
           /\ r.payload.connections = r.doc.connections
           /\ r.payload.settings = (IF r.doc.settings = <<>> THEN EmptyMapping
                                    ELSE r.doc.settings[1])

C9_Witness ==
    /\ Len(requests) >= 2
    /\ requests[1].doc.settings = <<>>
    /\ requests[2].doc.settings # <<>>

\* C10 (as claimed): a workflow whose rewrite fails with a parse error is counted
\* as a failure and the run goes on to the remaining workflows and the summary.
C10_ParseErrorIsolated ==
    \A j \in 1..Len(results) :
        results[j] = "raised" => (outcome # "error" /\ failed_count >= 1)

\* ------------------------------------------------- claims on the functions
Overlaps(old, new) ==
    \/ new = <<>>
    \/ Contains(new, old)
    \/ Contains(old, new)
    \/ \E k \in 1..Len(new) - 1 :
          /\ k <= Len(old)
          /\ \/ SubSeq(new, 1, k) = SubSeq(old, Len(old) - k + 1, Len(old))
             \/ SubSeq(new, Len(new) - k + 1, Len(new)) = SubSeq(old, 1, k)

\* The new identifier is plain text (no quote, no backslash) that overlaps no old one.
NoOverlap ==
    /\ \A i \in 1..Len(new_model_id) : new_model_id[i] \in Chars
    /\ \A k \in 1..Len(models_to_replace) : ~Overlaps(models_to_replace[k], new_model_id)

NoOldInNew == \A k \in 1..Len(models_to_replace) : ~Contains(new_model_id, models_to_replace[k])

C5_RewriteIdempotent ==
    rstage = "twice" => (rtwice.ok /\ rtwice.val = ronce.val)

\* C5 (amended): rewriting a rewritten document that no longer matches changes
\* nothing.
C5_RewriteIdempotentOnceClean ==
    (rstage = "twice" /\ ~rmatch.contains) => (rtwice.ok /\ rtwice.val = ronce.val)

C5_Witness ==
    /\ rstage = "twice" /\ ~rmatch.contains
    /\ ronce.val # rdoc
    /\ rtwice.val = ronce.val
====
